---- MODULE Spec2Model ----
(***************************************************************************)
(* python-rss2irc, bot.py: an IRC client (IRCBot) driven by the transport  *)
(* event loop on one thread, and one fetcher thread per feed (Bot) that    *)
(* polls the feed, stores unseen entries and announces them to the channel.*)
(*                                                                         *)
(* Thread 0 is the thread running the IRC event loop; thread w >= 1 is the *)
(* w-th element of Bot.__threads.  Every call into the outside world (the  *)
(* transport, the feed parser, the URL shortener, the database) is one     *)
(* step, so that the threads interleave exactly at those calls.            *)
(***************************************************************************)
EXTENDS Integers, Sequences, FiniteSets, TLC

(***************************************************************************)
(* Bounds of the model.                                                    *)
(***************************************************************************)
\* fetcher threads that may exist (a join event needs room for one per feed)
MaxThreads == 2
\* nickname-in-use events delivered during registration
MaxNickReqs == 2
\* private and public messages delivered
MaxMsgs == 2
\* rows the news table can hold; a further insert fails as a Gateway error
MaxNews == 2

(***************************************************************************)
(* Program constants.                                                      *)
(***************************************************************************)
\* re.findall('.{1,510}', line)
MaxLineLen == 510
\* "Prints the last 25 entries"
NewsLimit == 25

\* Config.NICK: the nickname passed to connect()
NICK == "rssbot"
\* the user whose messages the bot receives (event.source.nick)
Sender == "alice"
\* candidate values of Config.CHANNEL: a channel name, and two that are not
Channels == {"#news", "news", ""}
\* rows of the feeds table: (id, name, url, update interval in minutes)
FeedRows == << <<1, "LWN", "http://lwn.net/rss", 5>>,
               <<2, "HN", "http://hn.org/rss", 10>> >>

(***************************************************************************)
(* Strings.  A Python str is a TLA+ string; the operators below compute    *)
(* what the str methods used by bot.py compute.                            *)
(***************************************************************************)
CharAt(s, i) == SubSeq(s, i, i)

Upper == "ABCDEFGHIJKLMNOPQRSTUVWXYZ"

Lowercase == "abcdefghijklmnopqrstuvwxyz"

\* one character of str.lower()
LowerChar(c) ==
    IF \E i \in 1..Len(Upper) : CharAt(Upper, i) = c
    THEN CharAt(Lowercase, CHOOSE i \in 1..Len(Upper) : CharAt(Upper, i) = c)
    ELSE c

RECURSIVE Lower(_)
\* str.lower()
Lower(s) == IF Len(s) = 0 THEN "" ELSE LowerChar(Head(s)) \o Lower(Tail(s))

IsSpace(c) == c \in {" ", "\n", "\t", "\r"}

RECURSIVE LStrip(_)
LStrip(s) == IF Len(s) > 0 /\ IsSpace(Head(s)) THEN LStrip(Tail(s)) ELSE s

RECURSIVE RStrip(_)
RStrip(s) ==
    IF Len(s) > 0 /\ IsSpace(CharAt(s, Len(s)))
    THEN RStrip(SubSeq(s, 1, Len(s) - 1))
    ELSE s

\* str.strip()
Strip(s) == RStrip(LStrip(s))

\* str.startswith(p)
StartsWith(s, p) == Len(s) >= Len(p) /\ SubSeq(s, 1, Len(p)) = p

RECURSIVE Replace(_, _)
\* str.replace(p, ""): every occurrence of p removed, left to right
Replace(s, p) ==
    IF Len(s) = 0 THEN ""
    ELSE IF StartsWith(s, p) THEN Replace(SubSeq(s, Len(p) + 1, Len(s)), p)
    ELSE Head(s) \o Replace(Tail(s), p)

Digits == "0123456789"

IsDigit(c) == \E i \in 1..Len(Digits) : CharAt(Digits, i) = c

DigitVal(c) == (CHOOSE i \in 1..Len(Digits) : CharAt(Digits, i) = c) - 1

AllDigits(s) == Len(s) > 0 /\ \A i \in 1..Len(s) : IsDigit(CharAt(s, i))

\* whether int(s) returns (s already stripped): an optional sign and digits
IsInt(s) ==
    IF Len(s) > 0 /\ Head(s) \in {"+", "-"} THEN AllDigits(Tail(s))
    ELSE AllDigits(s)

RECURSIVE DigitsVal(_)
DigitsVal(s) ==
    IF Len(s) = 0 THEN 0
    ELSE 10 * DigitsVal(SubSeq(s, 1, Len(s) - 1)) + DigitVal(CharAt(s, Len(s)))

\* int(s) where IsInt(s)
ParseInt(s) ==
    IF Head(s) = "-" THEN 0 - DigitsVal(Tail(s))
    ELSE IF Head(s) = "+" THEN DigitsVal(Tail(s))
    ELSE DigitsVal(s)

RECURSIVE NatStr(_)
NatStr(n) ==
    IF n < 10 THEN CharAt(Digits, n + 1)
    ELSE NatStr(n \div 10) \o CharAt(Digits, (n % 10) + 1)

\* str(n) of an integer
ToStr(n) == IF n < 0 THEN "-" \o NatStr(0 - n) ELSE NatStr(n)

\* position of the first "\n" of s, 0 when there is none
FirstNewline(s) ==
    IF \E i \in 1..Len(s) : CharAt(s, i) = "\n"
    THEN CHOOSE i \in 1..Len(s) :
            /\ CharAt(s, i) = "\n"
            /\ \A j \in 1..(i - 1) : CharAt(s, j) # "\n"
    ELSE 0

RECURSIVE SplitLines(_)
\* msg.split("\n")
SplitLines(s) ==
    LET i == FirstNewline(s)
    IN  IF i = 0 THEN <<s>>
        ELSE <<SubSeq(s, 1, i - 1)>> \o SplitLines(SubSeq(s, i + 1, Len(s)))

\* a send_msg that writes only the first message of each line
FindFirst(line) ==
    IF Len(line) = 0 THEN <<>>
    ELSE IF Len(line) <= MaxLineLen THEN <<line>>
    ELSE <<SubSeq(line, 1, MaxLineLen)>>

RECURSIVE FindAll(_)
\* re.findall('.{1,510}', line) of a line without "\n": greedy, left to right
FindAll(line) ==
    IF Len(line) = 0 THEN <<>>
    ELSE IF Len(line) <= MaxLineLen THEN <<line>>
    ELSE <<SubSeq(line, 1, MaxLineLen)>>
            \o FindAll(SubSeq(line, MaxLineLen + 1, Len(line)))

RECURSIVE ChunksOfLines(_)
ChunksOfLines(lines) ==
    IF lines = <<>> THEN <<>>
    ELSE FindAll(Head(lines)) \o ChunksOfLines(Tail(lines))

\* the sub_lines send_msg passes to connection.privmsg, in order
Chunks(msg) == ChunksOfLines(SplitLines(msg))

(***************************************************************************)
(* The outside world: what the feed parser and the URL shortener return.   *)
(***************************************************************************)
\* entry records as feedparser delivers them; a missing attribute is a
\* missing field (reading it raises AttributeError)
EntryA == [title |-> "Alpha", link |-> "http://a", published |-> "Mon", updated |-> "Tue"]

\* a title of two lines
EntryB == [title |-> "Beta\nGamma", link |-> "http://b", updated |-> "Wed"]

EntryNoTitle == [link |-> "http://d"]

\* the documents feedparser.parse may return (news.entries, document order)
Docs == << <<EntryA, EntryB>>, <<EntryNoTitle, EntryA>>, <<>> >>

\* tinyurl.create_one(link) when the service answers
Short(link) == "http://tinyurl.com/" \o SubSeq(link, Len(link), Len(link))

\* what tinyurl.create_one may do: answer, return "Error", raise
ShortenOutcomes == {"ok", "Error", "raise"}

RECURSIVE Doubled(_, _)
\* s repeated 2^k times
Doubled(s, k) == IF k = 0 THEN s ELSE Doubled(s \o s, k - 1)

\* a line of n characters without "\n"
LineOf(n) == SubSeq(Doubled("abcdefg", 8), 1, n)

\* texts a caller may hand to send_msg: lines at, just over and far over
\* the length of one message, several lines, empty lines, nothing
SendTexts ==
    {"", "hi", LineOf(510), LineOf(511), LineOf(1020), LineOf(1021),
     LineOf(511) \o "\n" \o "xyz" \o "\n\n" \o LineOf(600)}

(***************************************************************************)
(* State.                                                                  *)
(***************************************************************************)
VARIABLES
    CHANNEL,        \* Config.CHANNEL
    feeds,          \* the feeds table (FeedDB), rows in get_feeds() order
    news,           \* the news table (FeedDB), rows in insertion order
    welcomed,       \* the server has sent the welcome event
    joinRequested,  \* connection.join(CHANNEL) was sent
    joins,          \* join events handled
    real_nickname,  \* what connection.get_nickname() returns
    nickReqs,       \* history: the nicknames passed to connection.nick
    inbox,          \* history: the private and public messages delivered, in
                    \* order, each with the send_msg calls it led to
    irc,            \* the IRC thread: where it is and what it is sending
    threads,        \* Bot.__threads: the fetcher threads, each with its locals
    posts,          \* history: the calls of post_news, in order
    wire            \* history: the messages written by connection.privmsg

vars == <<CHANNEL, feeds, news, welcomed, joinRequested, joins, real_nickname,
          nickReqs, inbox, irc, threads, posts, wire>>

IrcIdle == [pc |-> "idle", out |-> <<>>, target |-> "", call |-> 0]

\* a fetcher thread at the top of its loop
NewThread(feed_info) ==
    [feed_info |-> feed_info, pc |-> "parse", doc |-> 0, i |-> 0,
     newsurl |-> "", out |-> <<>>, call |-> 0, sleep |-> 0, printed |-> ""]

Init ==
    /\ CHANNEL \in Channels
    /\ feeds \in {SubSeq(FeedRows, 1, 1), FeedRows}
    /\ news = <<>>
    /\ welcomed = FALSE
    /\ joinRequested = FALSE
    /\ joins = 0
    /\ real_nickname = NICK
    /\ nickReqs = <<>>
    /\ inbox = <<>>
    /\ irc = IrcIdle
    /\ threads = <<>>
    /\ posts = <<>>
    /\ wire = <<>>

Workers == 1..Len(threads)

\* where thread t is: 0 is the IRC thread
PcOf(t) == IF t = 0 THEN irc.pc ELSE threads[t].pc

(***************************************************************************)
(* The Persistence Gateway (FeedDB, db.py).                                *)
(***************************************************************************)
\* insert_news reports a row as new when no row has its (feed id, url)
IsNewNews(feedid, url) ==
    ~\E r \in 1..Len(news) : news[r].feed = feedid /\ news[r].url = url

\* the row insert_news stores: its id is its rank in the table
NewsRow(feedid, title, url, date) ==
    [id |-> Len(news) + 1, feed |-> feedid, title |-> title, url |-> url,
     date |-> date]

RECURSIVE Reverse(_)
\* seq[::-1]
Reverse(seq) ==
    IF seq = <<>> THEN <<>> ELSE Reverse(Tail(seq)) \o <<Head(seq)>>

\* the last n elements of seq
LastN(seq, n) ==
    IF Len(seq) <= n THEN seq ELSE SubSeq(seq, Len(seq) - n + 1, Len(seq))

\* get_latest_news(): the 25 most recent rows, newest first
get_latest_news == Reverse(LastN(news, NewsLimit))

RECURSIVE SelectFeed(_, _)
SelectFeed(rows, feedid) ==
    IF rows = <<>> THEN <<>>
    ELSE IF Head(rows).feed = feedid
         THEN <<Head(rows)>> \o SelectFeed(Tail(rows), feedid)
         ELSE SelectFeed(Tail(rows), feedid)

\* get_news_from_feed(feedid): the 25 most recent rows of the feed, newest first
get_news_from_feed(feedid) == Reverse(LastN(SelectFeed(news, feedid), NewsLimit))

(***************************************************************************)
(* IRCBot: the command dispatcher.                                         *)
(***************************************************************************)
\* IRCBot.__help_msg
help_msg ==
    "Help:\n    Send all commands as a private message to " \o real_nickname
    \o "\n    - !help         Prints this help\n"
    \o "    - !list         Prints all feeds\n"
    \o "    - !stats        Prints some statistics\n"
    \o "    - !last         Prints the last 25 entries\n"
    \o "    - !lastfeed <feedid> Prints the last 25 entries from a specific feed\n"

RECURSIVE ListLines(_)
\* the answer of !list: one line per row of get_feeds()
ListLines(rows) ==
    IF rows = <<>> THEN ""
    ELSE "#" \o ToStr(Head(rows)[1]) \o ": " \o Head(rows)[2] \o ", "
            \o Head(rows)[3] \o ", updated every " \o ToStr(Head(rows)[4])
            \o " min" \o "\n" \o ListLines(Tail(rows))

RECURSIVE NewsLines(_)
\* the answer of !last and !lastfeed: one line per row, in the order given
NewsLines(rows) ==
    IF rows = <<>> THEN ""
    ELSE "#" \o ToStr(Head(rows).id) \o ": " \o Head(rows).title \o ", "
            \o Head(rows).url \o ", " \o Head(rows).date \o "\n"
            \o NewsLines(Tail(rows))

SomethingWrong == "Something went wrong :("

\* a dispatcher that lists the rows in the order the Gateway returned them
AsReturned(rows) == rows

\* for entry in self.__db.get_latest_news()[::-1]: the order of the listing
ListingOrder(rows) == Reverse(rows)

\* the argument of !lastfeed: msg.replace("!lastfeed","").strip()
FeedArg(msg) == Strip(Replace(msg, "!lastfeed"))

\* the Gateway calls __handle_msg(msg) makes when none of them raises, in
\* order
GatewayCalls(msg) ==
    IF msg = "!help" THEN <<>>
    ELSE IF msg = "!list" THEN <<"get_feeds">>
    ELSE IF msg = "!stats" THEN <<"get_feeds_count", "get_news_count">>
    ELSE IF msg = "!last" THEN <<"get_latest_news">>
    ELSE IF StartsWith(msg, "!lastfeed")
         THEN IF IsInt(FeedArg(msg)) THEN <<"get_news_from_feed">> ELSE <<>>
    ELSE <<>>

\* which Gateway call of a request raises: the first, the second, or (0) none
Failures == {0, 1, 2}

\* the fail-th Gateway call of the request raises
Raises(msg, fail) == fail \in 1..Len(GatewayCalls(msg))

\* what the Gateway returns to the n-th call of the request
Returned(msg, n) ==
    IF GatewayCalls(msg)[n] = "get_latest_news" THEN get_latest_news
    ELSE IF GatewayCalls(msg)[n] = "get_news_from_feed"
         THEN get_news_from_feed(ParseInt(FeedArg(msg)))
    ELSE <<>>

\* the Gateway calls __handle_msg(msg) makes, up to the one that raises, and
\* what each returned
MadeCalls(msg, fail) ==
    [n \in 1..(IF Raises(msg, fail) THEN fail ELSE Len(GatewayCalls(msg))) |->
        [op |-> GatewayCalls(msg)[n],
         raised |-> (n = fail),
         rows |-> IF n = fail THEN <<>> ELSE Returned(msg, n)]]

\* an except clause that leaves the answer as it would have been
NotCaught(raised, answer) == answer

\* try: ... except Exception as e: print e; answer = "Something went wrong :("
Caught(raised, answer) == IF raised THEN SomethingWrong ELSE answer

\* IRCBot.__handle_msg(msg); fail: the Gateway call that raises (0: none)
handle_msg(msg, fail) ==
    IF msg = "!help" THEN help_msg
    ELSE IF msg = "!list"
         THEN Caught(Raises(msg, fail), ListLines(feeds))
    ELSE IF msg = "!stats"
         THEN Caught(Raises(msg, fail),
                     "Feeds: " \o ToStr(Len(feeds)) \o ", News: "
                        \o ToStr(Len(news)))
    ELSE IF msg = "!last"
         THEN Caught(Raises(msg, fail), NewsLines(ListingOrder(get_latest_news)))
    ELSE IF StartsWith(msg, "!lastfeed")
         THEN IF ~IsInt(FeedArg(msg))
              THEN "Wrong command: " \o msg \o ", use: !lastfeed <feedid>"
              ELSE Caught(Raises(msg, fail),
                          NewsLines(ListingOrder(get_news_from_feed(
                                                     ParseInt(FeedArg(msg))))))
    ELSE help_msg

(***************************************************************************)
(* IRCBot.send_msg and the transport.                                      *)
(***************************************************************************)
\* the pacing delay after the chunk written last has elapsed: its writer is
\* no longer in the time.sleep(1) that follows the write
PaceElapsed == wire = <<>> \/ PcOf(wire[Len(wire)].by) # "paced"

\* connection.privmsg(target, text) by thread t.  kind and call name the
\* caller: the "greeting" of the call-th join, the "reply" to the call-th
\* message, the "news" of the call-th post_news.
Written(t, kind, call, target, text) ==
    Append(wire, [by |-> t, kind |-> kind, call |-> call, target |-> target,
                  text |-> text])

\* the IRC thread handles a message without answering
NoReply(origin, args) ==
    /\ inbox' = Append(inbox, [origin |-> origin, args |-> args, db |-> <<>>,
                               reply |-> <<>>])
    /\ irc' = irc

\* the IRC thread handles a message, having made the Gateway calls db, and
\* enters send_msg(target, msg)
IrcSend(origin, args, db, target, msg) ==
    /\ inbox' = Append(inbox, [origin |-> origin, args |-> args, db |-> db,
                               reply |-> <<[target |-> target, text |-> msg]>>])
    /\ irc' = IF Chunks(msg) = <<>> THEN IrcIdle
              ELSE [pc |-> "send", out |-> Chunks(msg), target |-> target,
                    call |-> Len(inbox) + 1]

\* IRCBot.send_msg(target, msg) called on the IRC thread with any text
send_msg(target, msg) ==
    /\ irc.pc = "idle"
    /\ welcomed
    /\ Len(inbox) < MaxMsgs
    /\ IrcSend("send_msg", <<msg>>, <<>>, target, msg)
    /\ UNCHANGED <<CHANNEL, feeds, news, welcomed, joinRequested, joins,
                   real_nickname, nickReqs, threads, posts, wire>>

\* send_msg on the IRC thread: connection.privmsg(target, sub_line); a
\* transport exception ends the call (except Exception: print e)
IrcSendChunk ==
    /\ irc.pc = "send"
    /\ \/ /\ wire' = Written(0, "reply", irc.call, irc.target, Head(irc.out))
          /\ irc' = [irc EXCEPT !.pc = "paced"]
       \/ /\ irc' = IrcIdle
          /\ wire' = wire
    /\ UNCHANGED <<CHANNEL, feeds, news, welcomed, joinRequested, joins,
                   real_nickname, nickReqs, inbox, threads, posts>>

\* send_msg on the IRC thread: time.sleep(1) returns; next sub_line or return
IrcPaceDone ==
    /\ irc.pc = "paced"
    /\ irc' = IF Tail(irc.out) = <<>> THEN IrcIdle
              ELSE [irc EXCEPT !.pc = "send", !.out = Tail(irc.out)]
    /\ UNCHANGED <<CHANNEL, feeds, news, welcomed, joinRequested, joins,
                   real_nickname, nickReqs, inbox, threads, posts, wire>>

(***************************************************************************)
(* IRCBot: the handlers of the transport events.  The event loop delivers  *)
(* an event only when the previous handler has returned.                   *)
(***************************************************************************)
\* an on_welcome that joins whatever the configured name
is_channel_any(name) == TRUE

\* irc.client.is_channel
is_channel(name) == Len(name) > 0 /\ Head(name) \in {"#", "&", "+", "!"}

\* the greeting of on_join
Greeting ==
    "Hi, I'm " \o real_nickname
    \o " and your bot. Send !help to get a list of commands."

\* IRCBot.on_welcome.  The server welcomes the client once, under the
\* nickname it registered (the last one requested); the library records it.
on_welcome ==
    /\ irc.pc = "idle"
    /\ ~welcomed
    /\ welcomed' = TRUE
    /\ real_nickname' = IF nickReqs = <<>> THEN NICK ELSE nickReqs[Len(nickReqs)]
    /\ joinRequested' = is_channel(CHANNEL)
    /\ UNCHANGED <<CHANNEL, feeds, news, joins, nickReqs, inbox, irc, threads,
                   posts, wire>>

\* the nickname on_nicknameinuse asks for
NextNick == real_nickname \o "_"

\* IRCBot.on_nicknameinuse.  The server refuses a nickname during
\* registration; connection.nick only sends the request, get_nickname()
\* changes when the server confirms a nickname (see on_welcome).
on_nicknameinuse ==
    /\ irc.pc = "idle"
    /\ ~welcomed
    /\ Len(nickReqs) < MaxNickReqs
    /\ nickReqs' = Append(nickReqs, NextNick)
    /\ UNCHANGED <<CHANNEL, feeds, news, welcomed, joinRequested, joins,
                   real_nickname, inbox, irc, threads, posts, wire>>

RECURSIVE Spawned(_)
\* Bot.on_started: one fetcher thread per row of get_feeds(), in order
Spawned(rows) ==
    IF rows = <<>> THEN <<>>
    ELSE <<NewThread(Head(rows))>> \o Spawned(Tail(rows))

\* an on_join that invokes the callback first and sends the greeting after it
on_join_callback_first ==
    /\ irc.pc = "idle"
    /\ joinRequested
    /\ Len(threads) + Len(feeds) <= MaxThreads
    /\ joins' = joins + 1
    /\ \/ /\ threads' = threads \o Spawned(feeds)
          /\ \/ /\ wire' = Written(0, "greeting", joins + 1, CHANNEL, Greeting)
                /\ irc' = irc
             \/ /\ irc' = [irc EXCEPT !.pc = "dead"]
                /\ wire' = wire
       \/ /\ irc' = [irc EXCEPT !.pc = "dead"]
          /\ UNCHANGED <<threads, wire>>
    /\ UNCHANGED <<CHANNEL, feeds, news, welcomed, joinRequested,
                   real_nickname, nickReqs, inbox, posts>>

\* IRCBot.on_join, with the Bot.on_started it calls.  The server reports a
\* join (the bot's or another user's) to a client that asked to join.  An
\* exception of privmsg or of get_feeds() is caught nowhere: it ends the
\* event loop and with it the IRC thread.
on_join ==
    /\ irc.pc = "idle"
    /\ joinRequested
    /\ Len(threads) + Len(feeds) <= MaxThreads
    /\ joins' = joins + 1
    /\ \/ /\ wire' = Written(0, "greeting", joins + 1, CHANNEL, Greeting)
          /\ \/ /\ threads' = threads \o Spawned(feeds)
                /\ irc' = irc
             \/ /\ irc' = [irc EXCEPT !.pc = "dead"]
                /\ threads' = threads
       \/ /\ irc' = [irc EXCEPT !.pc = "dead"]
          /\ UNCHANGED <<threads, wire>>
    /\ UNCHANGED <<CHANNEL, feeds, news, welcomed, joinRequested,
                   real_nickname, nickReqs, inbox, posts>>

\* the texts users send (event.arguments[0])
PrivTexts == {"!help", "!list", "!stats", "!last", "!lastfeed 1",
              "!lastfeed abc", "hello", "!lastfeed", "!lastfeed 1 !lastfeed"}

PubTexts == {"!help", " !HELP ", "hello", "!list"}

\* IRCBot.on_privmsg; args is event.arguments
on_privmsg(args, fail) ==
    /\ irc.pc = "idle"
    /\ welcomed
    /\ Len(inbox) < MaxMsgs
    /\ IF Len(args) < 1
       THEN NoReply("private", args)
       ELSE IrcSend("private", args, MadeCalls(Strip(Lower(args[1])), fail),
                    Sender, handle_msg(Strip(Lower(args[1])), fail))
    /\ UNCHANGED <<CHANNEL, feeds, news, welcomed, joinRequested, joins,
                   real_nickname, nickReqs, threads, posts, wire>>

\* an on_pubmsg that answers every channel message
PubAnswersAny(msg) == TRUE

\* whether on_pubmsg answers msg: if msg == "!help"
PubAnswers(msg) == msg = "!help"

\* whom on_pubmsg answers
PubTarget == Sender

\* IRCBot.on_pubmsg; args is event.arguments.  Channel messages reach a
\* client that is in the channel.
on_pubmsg(args) ==
    /\ irc.pc = "idle"
    /\ joins > 0
    /\ Len(inbox) < MaxMsgs
    /\ IF Len(args) >= 1 /\ PubAnswers(Strip(Lower(args[1])))
       THEN IrcSend("public", args, <<>>, PubTarget, help_msg)
       ELSE NoReply("public", args)
    /\ UNCHANGED <<CHANNEL, feeds, news, welcomed, joinRequested, joins,
                   real_nickname, nickReqs, threads, posts, wire>>

(***************************************************************************)
(* Bot.__fetch_feed: the loop of one fetcher thread.                       *)
(***************************************************************************)
\* the order in which a cycle processes news.entries
ProcessingOrder(entries) == Reverse(entries)

\* the entry thread th is processing
NewsItem(th) == ProcessingOrder(Docs[th.doc])[th.i]

\* the place in the document of the entry thread th is processing
DocPos(th) == Len(Docs[th.doc]) - th.i + 1

\* time.sleep(int(feed_info[3])*60): the seconds between two cycles
PollSeconds(feed_info) == feed_info[4] * 60

\* the thread leaves the try statement, having printed `line`, and reaches
\* the sleep of its loop
AtSleep(th, line) ==
    [th EXCEPT !.pc = "wait", !.doc = 0, !.i = 0, !.newsurl = "",
               !.out = <<>>, !.call = 0, !.sleep = PollSeconds(th.feed_info),
               !.printed = line]

\* a fetcher that skips the entry that raised and goes on with the next one
OnExceptionSkips(th) ==
    IF th.doc # 0 /\ th.i < Len(Docs[th.doc])
    THEN [th EXCEPT !.pc = "shorten", !.i = th.i + 1, !.newsurl = "",
                    !.out = <<>>, !.call = 0]
    ELSE AtSleep(th, "Failed")

\* a fetcher whose exception handler ends the loop
OnExceptionDies(th) == [th EXCEPT !.pc = "dead", !.printed = "Failed"]

\* except Exception as e: print e; print "Failed: ..."
OnException(th) == AtSleep(th, "Failed")

\* the for loop is exhausted: print "Updated: ..."
CycleDone(th) == AtSleep(th, "Updated")

\* the for loop takes its next entry, if any
NextEntry(th) ==
    IF th.i < Len(Docs[th.doc])
    THEN [th EXCEPT !.pc = "shorten", !.i = th.i + 1, !.newsurl = "",
                    !.out = <<>>, !.call = 0]
    ELSE CycleDone(th)

\* a fetcher that parses its feed only when no fetcher started before it is
\* parsing or shortening
FetchParseInTurn(w) ==
    /\ w \in Workers
    /\ threads[w].pc = "parse"
    /\ \A v \in 1..(w - 1) : threads[v].pc \notin {"parse", "shorten"}
    /\ \/ \E d \in 1..Len(Docs) :
            threads' = [threads EXCEPT ![w] =
                IF Len(Docs[d]) = 0
                THEN CycleDone([@ EXCEPT !.doc = d])
                ELSE [@ EXCEPT !.pc = "shorten", !.doc = d, !.i = 1, !.sleep = 0]]
       \/ threads' = [threads EXCEPT ![w] = OnException(@)]
    /\ UNCHANGED <<CHANNEL, feeds, news, welcomed, joinRequested, joins,
                   real_nickname, nickReqs, inbox, irc, posts, wire>>

\* news = feedparser.parse(feed_info[2]): a document, or an exception
FetchParse(w) ==
    /\ w \in Workers
    /\ threads[w].pc = "parse"
    /\ \/ \E d \in 1..Len(Docs) :
            threads' = [threads EXCEPT ![w] =
                IF Len(Docs[d]) = 0
                THEN CycleDone([@ EXCEPT !.doc = d])
                ELSE [@ EXCEPT !.pc = "shorten", !.doc = d, !.i = 1, !.sleep = 0]]
       \/ threads' = [threads EXCEPT ![w] = OnException(@)]
    /\ UNCHANGED <<CHANNEL, feeds, news, welcomed, joinRequested, joins,
                   real_nickname, nickReqs, inbox, irc, posts, wire>>

\* what tinyurl.create_one returns when it returns
create_one(link, outcome) == IF outcome = "ok" THEN Short(link) ELSE "Error"

\* if newsurl == "Error": newsurl = newsitem.link
NewsUrl(link, returned) == IF returned = "Error" THEN link ELSE returned

\* newsitem.published, else newsitem.updated, else 'no date'
NewsDate(item) ==
    IF "published" \in DOMAIN item THEN item.published
    ELSE IF "updated" \in DOMAIN item THEN item.updated
    ELSE "no date"

\* newstitle = newsitem.title; newsurl = tinyurl.create_one(newsitem.link),
\* with the fallback and the date.  A missing attribute and an exception of
\* the shortener leave the try statement.
FetchShorten(w) ==
    /\ w \in Workers
    /\ threads[w].pc = "shorten"
    /\ LET item == NewsItem(threads[w])
       IN  IF "title" \notin DOMAIN item \/ "link" \notin DOMAIN item
           THEN threads' = [threads EXCEPT ![w] = OnException(@)]
           ELSE \E outcome \in ShortenOutcomes :
                  threads' = [threads EXCEPT ![w] =
                      IF outcome = "raise"
                      THEN OnException(@)
                      ELSE [@ EXCEPT !.pc = "insert",
                                     !.newsurl = NewsUrl(item.link,
                                                   create_one(item.link, outcome))]]
    /\ UNCHANGED <<CHANNEL, feeds, news, welcomed, joinRequested, joins,
                   real_nickname, nickReqs, inbox, irc, posts, wire>>

\* a fetcher that announces whatever insert_news returned
AnnouncesAlways(is_new) == TRUE

\* if is_new: post_news(...)
Announces(is_new) == is_new

\* IRCBot.post_news: the text of an announcement
NewsMsg(feed_name, title, url, date) ==
    feed_name \o ": " \o title \o ", " \o url \o ", " \o date

\* is_new = self.__db.insert_news(...) and, when new, the call of post_news
\* up to its first connection.privmsg.  The Gateway may raise; it does when
\* the table is full.
FetchInsert(w) ==
    /\ w \in Workers
    /\ threads[w].pc = "insert"
    /\ LET th == threads[w]
           item == NewsItem(th)
           feedid == th.feed_info[1]
           is_new == IsNewNews(feedid, th.newsurl)
           msg == NewsMsg(th.feed_info[2], item.title, th.newsurl, NewsDate(item))
       IN  \/ /\ threads' = [threads EXCEPT ![w] = OnException(@)]
              /\ UNCHANGED <<news, posts>>
           \/ /\ is_new => Len(news) < MaxNews
              /\ news' = IF is_new
                         THEN Append(news, NewsRow(feedid, item.title, th.newsurl,
                                                   NewsDate(item)))
                         ELSE news
              /\ IF Announces(is_new)
                 THEN /\ posts' = Append(posts,
                            [by |-> w, feed |-> feedid, doc |-> th.doc,
                             pos |-> DocPos(th), url |-> th.newsurl,
                             text |-> msg])
                      /\ threads' = [threads EXCEPT ![w] =
                            [@ EXCEPT !.pc = "send", !.out = Chunks(msg),
                                      !.call = Len(posts) + 1]]
                 ELSE /\ posts' = posts
                      /\ threads' = [threads EXCEPT ![w] = NextEntry(@)]
    /\ UNCHANGED <<CHANNEL, feeds, welcomed, joinRequested, joins,
                   real_nickname, nickReqs, inbox, irc, wire>>

\* send_msg on a fetcher thread: connection.privmsg(target, sub_line); a
\* transport exception ends the call, and the for loop goes on
FetchSendChunk(w) ==
    /\ w \in Workers
    /\ threads[w].pc = "send"
    /\ \/ /\ wire' = Written(w, "news", threads[w].call, CHANNEL,
                              Head(threads[w].out))
          /\ threads' = [threads EXCEPT ![w].pc = "paced"]
       \/ /\ threads' = [threads EXCEPT ![w] = NextEntry(@)]
          /\ wire' = wire
    /\ UNCHANGED <<CHANNEL, feeds, news, welcomed, joinRequested, joins,
                   real_nickname, nickReqs, inbox, irc, posts>>

\* send_msg on a fetcher thread: time.sleep(1) returns
FetchPaceDone(w) ==
    /\ w \in Workers
    /\ threads[w].pc = "paced"
    /\ threads' = [threads EXCEPT ![w] =
            IF Tail(@.out) = <<>> THEN NextEntry(@)
            ELSE [@ EXCEPT !.pc = "send", !.out = Tail(@)]]
    /\ UNCHANGED <<CHANNEL, feeds, news, welcomed, joinRequested, joins,
                   real_nickname, nickReqs, inbox, irc, posts, wire>>

\* time.sleep(int(feed_info[3])*60) returns: while 1 starts the next cycle
FetchWake(w) ==
    /\ w \in Workers
    /\ threads[w].pc = "wait"
    /\ threads' = [threads EXCEPT ![w].pc = "parse", ![w].sleep = 0,
                                  ![w].printed = ""]
    /\ UNCHANGED <<CHANNEL, feeds, news, welcomed, joinRequested, joins,
                   real_nickname, nickReqs, inbox, irc, posts, wire>>

\* one step of fetcher thread w
fetch_feed(w) ==
    \/ FetchParse(w)
    \/ FetchShorten(w)
    \/ FetchInsert(w)
    \/ FetchSendChunk(w)
    \/ FetchPaceDone(w)
    \/ FetchWake(w)

(***************************************************************************)
(* The system.                                                             *)
(***************************************************************************)
\* the connection lifecycle and the fetcher threads, no user talking
Next ==
    \/ on_welcome
    \/ on_join
    \/ \E w \in 1..MaxThreads : fetch_feed(w)

\* the IRC thread alone: every event and every command, the fetcher threads
\* never scheduled
ChatNext ==
    \/ on_welcome
    \/ on_nicknameinuse
    \/ on_join
    \/ \E text \in PrivTexts, fail \in Failures : on_privmsg(<<text>>, fail)
    \/ on_privmsg(<<>>, 0)
    \/ \E text \in PubTexts : on_pubmsg(<<text>>)
    \/ on_pubmsg(<<>>)
    \/ IrcSendChunk
    \/ IrcPaceDone

Spec == Init /\ [][Next]_vars

\* a bot with two feeds and a channel to join
FairInit == Init /\ CHANNEL = "#news" /\ feeds = FeedRows

\* the scheduler runs every thread that can run, and every call returns
FairSpec ==
    /\ FairInit
    /\ [][Next]_vars
    /\ \A w \in 1..MaxThreads : WF_vars(fetch_feed(w))

\* the first fetcher may stay for ever in any call it makes (its feed parse,
\* its shortener call); the scheduler runs the others
StallSpec ==
    /\ FairInit
    /\ [][Next]_vars
    /\ \A w \in 2..MaxThreads : WF_vars(fetch_feed(w))

ChatSpec == Init /\ [][ChatNext]_vars

\* what the fetchers of earlier runs may have stored: (feed id, title, url,
\* date) of the entries of Docs
StoredItems ==
    {<<1, "Alpha", "http://tinyurl.com/a", "Mon">>,
     <<1, "Beta\nGamma", "http://b", "Wed">>,
     <<2, "Alpha", "http://a", "Mon">>}

\* the orders in which at most MaxNews of them were stored, no (feed id, url)
\* twice
StoredOrders ==
    {g \in UNION {[1..m -> StoredItems] : m \in 0..MaxNews} :
        \A j, k \in DOMAIN g :
            j # k => <<g[j][1], g[j][3]>> # <<g[k][1], g[k][3]>>}

\* the news tables that result, ids in insertion order
NewsTables ==
    {[k \in DOMAIN g |-> [id |-> k, feed |-> g[k][1], title |-> g[k][2],
                          url |-> g[k][3], date |-> g[k][4]]] :
        g \in StoredOrders}

\* the bot has connected again: the database file holds the rows of its
\* earlier runs, the server has welcomed it and it has not yet joined
QueryInit ==
    /\ CHANNEL = "#news"
    /\ feeds = FeedRows
    /\ news \in NewsTables
    /\ welcomed = TRUE
    /\ joinRequested = TRUE
    /\ joins = 0
    /\ real_nickname = NICK
    /\ nickReqs = <<>>
    /\ inbox = <<>>
    /\ irc = IrcIdle
    /\ threads = <<>>
    /\ posts = <<>>
    /\ wire = <<>>

\* the commands that list news
QueryTexts == {"!last", "!lastfeed 1", " !LastFeed 2", "!lastfeed 7"}

\* users ask the connected bot for the stored news
QueryNext ==
    \/ \E text \in QueryTexts, fail \in Failures : on_privmsg(<<text>>, fail)
    \/ IrcSendChunk
    \/ IrcPaceDone

QuerySpec == QueryInit /\ [][QueryNext]_vars

\* send_msg alone, called with texts of every shape
SendNext ==
    \/ on_welcome
    \/ \E msg \in SendTexts : send_msg(Sender, msg)
    \/ IrcSendChunk
    \/ IrcPaceDone

SendSpec == Init /\ [][SendNext]_vars

(***************************************************************************)
(* Properties.                                                             *)
(***************************************************************************)
\* the feed id of fetcher thread w
FeedOf(w) == threads[w].feed_info[1]

\* C1: at most one fetcher thread runs for any feed id, whatever events the
\* transport delivered (fetcher threads never end, so every thread of
\* Bot.__threads is running)
C1_OneFetcherPerFeed ==
    \A v, w \in Workers : v # w => FeedOf(v) # FeedOf(w)

\* the texts written to the connection for the call-th post_news, in order
RECURSIVE NewsChunksOf(_, _)
NewsChunksOf(log, call) ==
    IF log = <<>> THEN <<>>
    ELSE IF Head(log).kind = "news" /\ Head(log).call = call
         THEN <<Head(log).text>> \o NewsChunksOf(Tail(log), call)
         ELSE NewsChunksOf(Tail(log), call)

IsPrefix(a, b) == Len(a) <= Len(b) /\ a = SubSeq(b, 1, Len(a))

\* C2: the k-th announcement handed to send_msg is the announcement of the
\* k-th row insert_news reported as new; no two announcements share their
\* (feed id, url); what the channel receives of an announcement is its
\* chunks, once
C2_AnnouncedOncePerNewItem ==
    /\ Len(posts) = Len(news)
    /\ \A k \in 1..Len(posts) :
          /\ posts[k].feed = news[k].feed
          /\ posts[k].url = news[k].url
          /\ IsPrefix(NewsChunksOf(wire, k), Chunks(posts[k].text))
    /\ \A j, k \in 1..Len(posts) :
          j # k => <<posts[j].feed, posts[j].url>> # <<posts[k].feed, posts[k].url>>
    /\ \A i \in 1..Len(wire) :
          wire[i].kind = "news" => wire[i].call \in 1..Len(posts)

\* C2 witness: a fetcher has passed the first entry of a document, whose
\* insert returned false (the thread has announced nothing), and an
\* announcement of another thread exists
C2_Witness ==
    \E w \in Workers :
        /\ threads[w].pc = "shorten"
        /\ threads[w].i = 2
        /\ posts # <<>>
        /\ \A k \in 1..Len(posts) : posts[k].by # w

\* the places a running fetcher can be at
LivePcs == {"parse", "shorten", "insert", "send", "paced", "wait"}

\* C8: a fetcher thread is never ended; after a failed cycle it waits the
\* poll interval of its feed, as after a successful one; and under fair
\* scheduling every fetcher thread starts a poll cycle again and again
C8_FailuresAreNotFatal ==
    /\ [](\A w \in Workers :
            /\ threads[w].pc \in LivePcs
            /\ threads[w].pc = "wait" =>
                  threads[w].sleep = PollSeconds(threads[w].feed_info))
    /\ \A w \in 1..MaxThreads :
          [](w \in Workers => <>(w \in Workers /\ threads[w].pc = "parse"))

\* C8 witness: a cycle has failed and the thread is in its wait
C8_Witness ==
    \E w \in Workers :
        /\ threads[w].pc = "wait"
        /\ threads[w].printed = "Failed"
        /\ threads[w].sleep = PollSeconds(threads[w].feed_info)

\* the announcement the i-th message on the wire belongs to
PostOf(i) == posts[wire[i].call]

\* C3: the announcements of the entries of one document of a feed reach the
\* channel in the reverse of the document's order: of two of them, the one
\* written first is of the entry that comes later in the document
C3_AnnouncedInReverseOrder ==
    \A i, j \in 1..Len(wire) :
        ( /\ i < j
          /\ wire[i].kind = "news"
          /\ wire[j].kind = "news"
          /\ PostOf(i).feed = PostOf(j).feed
          /\ PostOf(i).doc = PostOf(j).doc )
        => PostOf(i).pos >= PostOf(j).pos

\* the i-th and the j-th message on the wire come from the same call
SameCall(i, j) == wire[i].kind = wire[j].kind /\ wire[i].call = wire[j].call

\* C4: the chunks of one send_msg call are contiguous among the chunks that
\* send_msg calls write: no chunk of another call lies between two of them
C4_ChunksNotInterleaved ==
    \A i, j, k \in 1..Len(wire) :
        ( /\ i < j
          /\ j < k
          /\ SameCall(i, k)
          /\ wire[j].kind \in {"news", "reply"} )
        => SameCall(i, j)

\* C5: a message is written to the connection only when the pacing delay
\* that follows the message written before it has elapsed
C5_PacedBetweenAllChunks == [][wire' # wire => PaceElapsed]_vars

\* C6: every message written to the connection is written by send_msg
C6_AllWritesThroughSendMsg ==
    \A i \in 1..Len(wire) : wire[i].kind \in {"news", "reply"}

\* thread w is processing an entry that has its title and its link
WellFormedItem(w) ==
    /\ "title" \in DOMAIN NewsItem(threads[w])
    /\ "link" \in DOMAIN NewsItem(threads[w])

\* C7: when the shortener does not deliver a short URL for an entry (it
\* returns "Error" or raises), the fetcher goes on to insert_news with the
\* entry's own link, in the same cycle
C7_ShortenerFailureUsesLink ==
    [][\A w \in Workers :
          ( /\ threads[w].pc = "shorten"
            /\ threads'[w] # threads[w]
            /\ WellFormedItem(w)
            /\ ~( /\ threads'[w].pc = "insert"
                  /\ threads'[w].newsurl = Short(NewsItem(threads[w]).link) ) )
          => ( /\ threads'[w].pc = "insert"
               /\ threads'[w].doc = threads[w].doc
               /\ threads'[w].i = threads[w].i
               /\ threads'[w].newsurl = NewsItem(threads[w]).link )]_vars

RECURSIVE Suffixed(_, _)
\* nick followed by n suffix characters
Suffixed(nick, n) == IF n = 0 THEN nick ELSE Suffixed(nick, n - 1) \o "_"

\* C9: of the nickname-in-use events received in a row, the k-th leads to
\* the request of the original nickname followed by k suffix characters
C9_EachCollisionAddsASuffix ==
    \A k \in 1..Len(nickReqs) : nickReqs[k] = Suffixed(NICK, k)

\* the command of a message, as the grammar reads it
Command(args) == Strip(Lower(args[1]))

\* C10: a channel message that is not the command !help gets no answer; the
\* command !help in a channel message gets one answer, the help text, sent
\* to its sender, and nothing of it goes to the channel
C10_PublicOnlyHelpAnsweredPrivately ==
    /\ \A m \in 1..Len(inbox) :
          inbox[m].origin = "public" =>
             IF Len(inbox[m].args) >= 1 /\ Command(inbox[m].args) = "!help"
             THEN /\ Len(inbox[m].reply) = 1
                  /\ inbox[m].reply[1].target = Sender
                  /\ inbox[m].reply[1].text = help_msg
             ELSE inbox[m].reply = <<>>
    /\ \A i \in 1..Len(wire) :
          (wire[i].kind = "reply" /\ inbox[wire[i].call].origin = "public") =>
             /\ wire[i].target = Sender
             /\ wire[i].target # CHANNEL
             /\ inbox[wire[i].call].reply # <<>>

\* C10 witness: the help text has been written, whole, to the sender of a
\* channel message
C10_Witness ==
    \E m \in 1..Len(inbox) :
        /\ inbox[m].origin = "public"
        /\ inbox[m].reply # <<>>
        /\ irc.pc = "idle"
        /\ Cardinality({i \in 1..Len(wire) :
                          wire[i].kind = "reply" /\ wire[i].call = m})
             = Len(Chunks(help_msg))

\* C11: every private message that carries a text has been answered with one
\* reply (no exception left the dispatcher); the reply is the generic
\* failure reply when a Gateway call of the request raised, and is not when
\* none did, whatever happened to the requests before it
C11_GatewayFailureGivesFailureReply ==
    \A m \in 1..Len(inbox) :
        (inbox[m].origin = "private" /\ Len(inbox[m].args) >= 1) =>
            /\ Len(inbox[m].reply) = 1
            /\ (\E n \in 1..Len(inbox[m].db) : inbox[m].db[n].raised)
                  <=> inbox[m].reply[1].text = "Something went wrong :("

\* C11 witness: the second Gateway call of a request raised and the request
\* got the failure reply; the command after it was answered with its list
C11_Witness ==
    /\ Len(inbox) = 2
    /\ Len(inbox[1].db) = 2
    /\ inbox[1].db[2].raised
    /\ inbox[1].reply[1].text = "Something went wrong :("
    /\ inbox[2].db # <<>>
    /\ ~inbox[2].db[1].raised
    /\ inbox[2].reply[1].text = ListLines(feeds)

\* s contains p
Contains(s, p) ==
    \E i \in 1..(Len(s) - Len(p) + 1) : SubSeq(s, i, i + Len(p) - 1) = p

\* the <arg> of a command of the form "!lastfeed <arg>": what follows the
\* command word
LastfeedArg(cmd) == Strip(SubSeq(cmd, Len("!lastfeed") + 1, Len(cmd)))

\* C12: a private message "!lastfeed <arg>" whose <arg> is no integer is
\* answered with the usage error, which contains "Wrong command" and the
\* message, and no per-feed news query is made for it
C12_BadFeedIdGivesUsageError ==
    \A m \in 1..Len(inbox) :
        ( /\ inbox[m].origin = "private"
          /\ Len(inbox[m].args) >= 1
          /\ StartsWith(Command(inbox[m].args), "!lastfeed")
          /\ ~IsInt(LastfeedArg(Command(inbox[m].args))) )
        => /\ Len(inbox[m].reply) = 1
           /\ Contains(inbox[m].reply[1].text, "Wrong command")
           /\ Contains(inbox[m].reply[1].text, Command(inbox[m].args))
           /\ \A n \in 1..Len(inbox[m].db) :
                  inbox[m].db[n].op # "get_news_from_feed"

\* C13: a send that raises (a step at a send site that writes nothing) ends
\* no thread: after a join event whose greeting raised the IRC thread is
\* alive and the fetchers of the join are started, and a fetcher whose
\* announcement raised goes on with its cycle
C13_SendExceptionsAreCaught ==
    [][ /\ (joins' # joins /\ wire' = wire) =>
              /\ irc'.pc # "dead"
              /\ Len(threads') = Len(threads) + Len(feeds)
        /\ \A w \in Workers :
              ( /\ threads[w].pc = "send"
                /\ threads'[w] # threads[w]
                /\ wire' = wire )
              => threads'[w].pc \in LivePcs ]_vars

RECURSIVE RepliesOf(_, _)
\* the texts written to the connection for the reply to the m-th message,
\* in order
RepliesOf(log, m) ==
    IF log = <<>> THEN <<>>
    ELSE IF Head(log).kind = "reply" /\ Head(log).call = m
         THEN <<Head(log).text>> \o RepliesOf(Tail(log), m)
         ELSE RepliesOf(Tail(log), m)

RECURSIVE Concat(_)
\* the strings of a sequence, joined
Concat(strs) == IF strs = <<>> THEN "" ELSE Head(strs) \o Concat(Tail(strs))

\* the least number of messages of at most MaxLineLen characters that hold
\* n characters
CeilDiv(n) == (n + MaxLineLen - 1) \div MaxLineLen

RECURSIVE Need(_)
\* the chunks the lines need, each line on its own
Need(lines) ==
    IF lines = <<>> THEN 0 ELSE CeilDiv(Len(Head(lines))) + Need(Tail(lines))

\* the lengths of the first k strings of a sequence, added up
LenUpTo(strs, k) == Len(Concat(SubSeq(strs, 1, k)))

\* C14: of a text handed to send_msg, each line is sent on its own, the
\* lines in order: every chunk written has 1 to 510 characters, the chunks
\* written so far are the beginning of the text (its newlines dropped), no
\* chunk runs over the end of a line, the chunks written and those still to
\* write number ceil(len/510) per line, and when all are written they are
\* the whole text
C14_LongLinesAreSplit ==
    \A m \in 1..Len(inbox) :
        inbox[m].origin = "send_msg" =>
            LET T == inbox[m].reply[1].text
                lines == SplitLines(T)
                W == RepliesOf(wire, m)
                left == IF irc.call = m /\ irc.pc = "send" THEN Len(irc.out)
                        ELSE IF irc.call = m /\ irc.pc = "paced"
                             THEN Len(irc.out) - 1
                        ELSE 0
            IN  /\ \A i \in 1..Len(W) : Len(W[i]) \in 1..MaxLineLen
                /\ IsPrefix(Concat(W), Concat(lines))
                /\ \A j \in 0..Len(lines) :
                      LenUpTo(lines, j) <= Len(Concat(W)) =>
                          \E k \in 0..Len(W) : LenUpTo(W, k) = LenUpTo(lines, j)
                /\ Len(W) <= Need(lines)
                /\ irc.call = m => Len(W) + left = Need(lines)
                /\ Len(W) = Need(lines) => Concat(W) = Concat(lines)

\* C14 witness: a line of 1021 characters has been written whole, as three
\* chunks, the last of one character
C14_Witness ==
    \E m \in 1..Len(inbox) :
        /\ inbox[m].origin = "send_msg"
        /\ inbox[m].reply[1].text = LineOf(1021)
        /\ Len(RepliesOf(wire, m)) = 3
        /\ Len(RepliesOf(wire, m)[3]) = 1
        /\ irc.call # m

\* the join event whose callback started fetcher thread w
JoinOf(w) == ((w - 1) \div Len(feeds)) + 1

\* C15: before a join event is received there is no fetcher thread, no row
\* in the news table and no announcement; and the greeting of the join
\* event that started a fetcher is on the wire, ahead of everything that
\* fetcher wrote
C15_FetchersStartAfterJoin ==
    /\ joins = 0 => (threads = <<>> /\ news = <<>> /\ posts = <<>> /\ wire = <<>>)
    /\ \A w \in Workers :
          \E i \in 1..Len(wire) :
              /\ wire[i].kind = "greeting"
              /\ wire[i].call = JoinOf(w)
              /\ \A j \in 1..Len(wire) : wire[j].by = w => i < j

\* C15 witness: a fetcher started by the second join event has announced an
\* entry
C15_Witness ==
    \E j \in 1..Len(wire) :
        /\ wire[j].kind = "news"
        /\ wire[j].by \in Workers
        /\ JoinOf(wire[j].by) = 2

\* C16: a fetcher can always take its next step, wherever the other
\* fetchers are; and while the first fetcher is stalled, each other fetcher
\* again and again reaches the end of a poll cycle, and every announcement it
\* has begun leaves send_msg
C16_FetchersAreIndependent ==
    /\ [](\A w \in Workers : ENABLED fetch_feed(w))
    /\ \A w \in 2..MaxThreads :
          /\ [](w \in Workers => <>(w \in Workers /\ threads[w].pc = "wait"))
          /\ [](w \in Workers /\ threads[w].pc \in {"send", "paced"}
                  => <>(w \in Workers /\ threads[w].pc \notin {"send", "paced"}))

\* C16 witness: the first fetcher is inside its feed parse or its shortener
\* call, having announced nothing, while the second has announced an entry
\* and finished its cycle
C16_Witness ==
    /\ Len(threads) >= 2
    /\ threads[1].pc \in {"parse", "shorten"}
    /\ \A k \in 1..Len(posts) : posts[k].by # 1
    /\ \E j \in 1..Len(wire) : wire[j].kind = "news" /\ wire[j].by = 2
    /\ threads[2].pc = "wait"
    /\ threads[2].printed = "Updated"

\* the k-th announcement was cut short: its send_msg call has ended and not
\* all of its chunks were written
CutShort(k) ==
    /\ Len(NewsChunksOf(wire, k)) < Len(Chunks(posts[k].text))
    /\ \A v \in Workers :
          ~(threads[v].call = k /\ threads[v].pc \in {"send", "paced"})

\* C17: when a fetcher, the only one of its feed, comes again to an entry
\* whose announcement was cut short by a failed send, and the Gateway
\* answers, it hands the entry to post_news again
C17_FailedAnnouncementIsRetried ==
    [][\A w \in Workers :
          ( /\ \A v \in Workers : v # w => FeedOf(v) # FeedOf(w)
            /\ threads[w].pc = "insert"
            /\ threads'[w] # threads[w]
            /\ threads'[w].printed # "Failed"
            /\ \E k \in 1..Len(posts) :
                  /\ posts[k].feed = FeedOf(w)
                  /\ posts[k].url = threads[w].newsurl
                  /\ CutShort(k) )
          => /\ Len(posts') = Len(posts) + 1
             /\ posts'[Len(posts')].url = threads[w].newsurl ]_vars

\* a channel name begins with one of the channel prefix characters
ValidChannelName(name) == name # "" /\ CharAt(name, 1) \in {"#", "&", "+", "!"}

\* C18: no join request is sent before the welcome event; after it, one has
\* been sent exactly when the configured name is a valid channel name; with
\* an invalid name no join event is ever handled and no fetcher started
C18_JoinsOnlyValidChannel ==
    /\ ~welcomed => ~joinRequested
    /\ welcomed => (joinRequested <=> ValidChannelName(CHANNEL))
    /\ ~ValidChannelName(CHANNEL) => (joins = 0 /\ threads = <<>> /\ wire = <<>>)

\* C18 witness: the welcome event was handled with a name that is no
\* channel name, and no join request went out
C18_Witness == welcomed /\ CHANNEL = "news" /\ ~joinRequested

\* the m-th message is a private !last or !lastfeed <id> whose Gateway
\* query returned
IsListing(m) ==
    /\ inbox[m].origin = "private"
    /\ Len(inbox[m].args) >= 1
    /\ Len(inbox[m].db) = 1
    /\ inbox[m].db[1].op \in {"get_latest_news", "get_news_from_feed"}
    /\ ~inbox[m].db[1].raised

\* the text that lists one row
EntryText(r) == "#" \o ToStr(r.id) \o ": " \o r.title \o ", " \o r.url
                    \o ", " \o r.date

RECURSIVE Listing(_, _)
\* the first k rows of a sequence listed last row first, each entry ended by
\* a newline
Listing(rows, k) ==
    IF k = 0 THEN "" ELSE EntryText(rows[k]) \o "\n" \o Listing(rows, k - 1)

\* C19 (amended): the reply to !last and to !lastfeed <id> is made of one
\* entry per row the Gateway's query returned, each ended by a newline, in
\* the reverse of the returned order; the query returning newest first, the
\* ids of the entries go up from the first entry to the last
C19_ListsReturnedRowsOldestFirst ==
    \A m \in 1..Len(inbox) :
        IsListing(m) =>
            LET rows == inbox[m].db[1].rows
            IN  /\ Len(inbox[m].reply) = 1
                /\ inbox[m].reply[1].text = Listing(rows, Len(rows))
                /\ \A j, k \in 1..Len(rows) : j < k => rows[j].id > rows[k].id

\* C19 as stated: the reply has one line per returned row, the j-th line
\* listing the j-th row from the end
C19_OneLinePerItem ==
    \A m \in 1..Len(inbox) :
        IsListing(m) =>
            LET rows == inbox[m].db[1].rows
                lines == SplitLines(inbox[m].reply[1].text)
            IN  /\ Len(lines) = Len(rows) + 1
                /\ lines[Len(lines)] = ""
                /\ \A j \in 1..Len(rows) :
                      lines[j] = EntryText(rows[Len(rows) + 1 - j])

\* C19 witness: the reply to a !last that listed two rows has been sent
C19_Witness ==
    \E m \in 1..Len(inbox) :
        /\ IsListing(m)
        /\ inbox[m].db[1].op = "get_latest_news"
        /\ Len(inbox[m].db[1].rows) = 2
        /\ irc.call # m
        /\ Len(RepliesOf(wire, m)) >= 2

\* C20: a step of a fetcher out of the processing of an entry either goes on
\* with that entry or ends the cycle as failed; it ends it as failed when the
\* entry lacks its title or its link; the step that ends a cycle as failed
\* inserts and announces nothing and undoes nothing; from the wait that
\* follows, the fetcher goes nowhere but to the parse of the next cycle; and
\* rows and announcements are added only by a fetcher at the insert of an
\* entry, never removed
C20_ExceptionEndsTheCycle ==
    [][ /\ \A w \in Workers :
              threads'[w] # threads[w] =>
                 LET failed == /\ threads'[w].pc = "wait"
                               /\ threads'[w].printed = "Failed"
                 IN  /\ threads[w].pc = "shorten" =>
                           \/ failed
                           \/ /\ WellFormedItem(w)
                              /\ threads'[w].pc = "insert"
                              /\ threads'[w].i = threads[w].i
                              /\ threads'[w].doc = threads[w].doc
                     /\ failed => (news' = news /\ posts' = posts /\ wire' = wire)
                     /\ threads[w].pc = "wait" => threads'[w].pc = "parse"
        /\ IsPrefix(news, news') /\ IsPrefix(posts, posts') /\ IsPrefix(wire, wire')
        /\ (news' # news \/ posts' # posts) =>
              \E w \in Workers :
                  threads[w].pc = "insert" /\ threads'[w] # threads[w] ]_vars

\* C20 witness: the only fetcher stored and announced "Alpha", the entry it
\* came to first, and its cycle failed at the next entry, which has no title
C20_Witness ==
    /\ Len(threads) = 1
    /\ threads[1].pc = "wait"
    /\ threads[1].printed = "Failed"
    /\ Len(news) = 1
    /\ news[1].title = "Alpha"
    /\ \E j \in 1..Len(wire) : wire[j].kind = "news" /\ wire[j].by = 1

====
